---- MODULE Spec2Model ----
(***************************************************************************)
(* Model of the discordhook webhook client (discordhook.go): the           *)
(* WebhookAPI value, its four operations Execute, Get, Modify and Delete,  *)
(* the JSON encoding of their parameter records and the decoding of the    *)
(* responses, over an HTTP transport that answers, fails or is cancelled.  *)
(*                                                                         *)
(* JSON text is a sequence of string tokens: <<"{", key, ":", value, ",",  *)
(* ..., "}">>.  Every call is split at the one place where it blocks, the  *)
(* call of wa.Client.Do: the part before it builds and sends the request,  *)
(* the part after it handles the response.                                 *)
(***************************************************************************)
EXTENDS Integers, Sequences, FiniteSets, TLC

\* Number of goroutines calling the one client at the same time (SpecConc).
NumCallers == 3
\* Number of calls the single caller of Spec makes one after the other.
MaxCalls == 2
\* Message and webhook ids the mock server of Spec puts in its bodies.
MaxID == 2

Callers == 1..NumCallers
IDs == {ToString(i) : i \in 1..MaxID}

VARIABLES
    wa,         \* the WebhookAPI value: URL, Wait
    pc,         \* per caller: "idle", "inflight", "responded", "done"
    op,         \* per caller: the operation it is in
    ctx,        \* per caller: the context it passed: "nil" or "live"
    cancelled,  \* per caller: its context was cancelled while in flight
    params,     \* per caller: the parameter record it passed
    net,        \* per caller: its request while the transport holds it
    resps,      \* per caller: the response the transport has for its request
    res,        \* per caller: the handler's local variable res
    result,     \* per caller: what the call returned
    nreq,       \* per caller: requests issued by the current call
    ncalls,     \* calls started so far
    openBodies  \* response bodies handed out and not closed

vars == <<wa, pc, op, ctx, cancelled, params, net, resps, res, result,
          nreq, ncalls, openBodies>>

----------------------------------------------------------------------------
(* Values *)

Nil == [nil |-> TRUE]
NoErr == [kind |-> "nil", text |-> <<>>]
Err(kind, text) == [kind |-> kind, text |-> text]

\* A Go slice: nil, or a (possibly empty) sequence of elements.
NilSlice == [nil |-> TRUE, elems |-> <<>>]
Slice(s) == [nil |-> FALSE, elems |-> s]
\* A Go pointer: nil, or pointing at a value.
NilPtr == [nil |-> TRUE, val |-> "null"]
Ptr(v) == [nil |-> FALSE, val |-> v]

----------------------------------------------------------------------------
(* The struct tags of the two parameter records, as written in the source: *)
(* the JSON key and the option after the comma.                            *)

WebhookExecuteParamsTags ==
    << [field |-> "Content",         key |-> "content",          opt |-> "omitempty", kind |-> "string"],
       [field |-> "Username",        key |-> "username",         opt |-> "omitempty", kind |-> "string"],
       [field |-> "AvatarURL",       key |-> "avatar_url",       opt |-> "omitempty", kind |-> "string"],
       [field |-> "TTS",             key |-> "tts",              opt |-> "omitempty", kind |-> "bool"],
       [field |-> "Embeds",          key |-> "embeds",           opt |-> "omitempty", kind |-> "slice"],
       [field |-> "AllowedMentions", key |-> "allowed_mentions", opt |-> "omitempty", kind |-> "ptr"] >>

WebhookModifyParamsTags ==
    << [field |-> "Name",      key |-> "name",       opt |-> "omitemprty", kind |-> "string"],
       [field |-> "Avatar",    key |-> "avatar",     opt |-> "omitemprty", kind |-> "string"],
       [field |-> "ChannelID", key |-> "channel_id", opt |-> "omitemprty", kind |-> "uint"] >>

\* IsEmptyValue with a slice counted as empty only when it is nil.
IsEmptyValueNilOnly(kind, v) ==
    CASE kind = "string" -> v = ""
      [] kind = "bool"   -> v = FALSE
      [] kind = "uint"   -> v = "0"
      [] kind = "slice"  -> v.nil
      [] kind = "ptr"    -> v.nil

\* The encoder's notion of an empty value, by the Go kind of the field.
IsEmptyValue(kind, v) ==
    CASE kind = "string" -> v = ""
      [] kind = "bool"   -> v = FALSE
      [] kind = "uint"   -> v = "0"
      [] kind = "slice"  -> Len(v.elems) = 0
      [] kind = "ptr"    -> v.nil

\* The token a value is written as.
ValueToken(kind, v) ==
    CASE kind = "string" -> v
      [] kind = "bool"   -> IF v THEN "true" ELSE "false"
      [] kind = "uint"   -> v
      [] kind = "slice"  -> IF v.nil THEN "null" ELSE "[...]"
      [] kind = "ptr"    -> IF v.nil THEN "null" ELSE "{...}"

\* Only the exact option "omitempty" makes the encoder skip an empty field;
\* any other option text is ignored.
OmitField(tag, v) == tag.opt = "omitempty" /\ IsEmptyValue(tag.kind, v)

RECURSIVE EncodeFields(_, _, _, _)
EncodeFields(tags, rec, i, first) ==
    IF i > Len(tags) THEN <<>>
    ELSE LET tag == tags[i]
             v   == rec[tag.field]
         IN  IF OmitField(tag, v)
             THEN EncodeFields(tags, rec, i + 1, first)
             ELSE (IF first THEN <<>> ELSE <<",">>)
                  \o <<tag.key, ":", ValueToken(tag.kind, v)>>
                  \o EncodeFields(tags, rec, i + 1, FALSE)

\* jsoniter.NewEncoder(w).Encode(rec) for a struct with the given tags.
Encode(tags, rec) == <<"{">> \o EncodeFields(tags, rec, 1, TRUE) \o <<"}">>

\* The keys of a JSON object text: the tokens followed by ":".
JSONKeys(toks) == {toks[i] : i \in {j \in 1..(Len(toks) - 1) : toks[j + 1] = ":"}}

----------------------------------------------------------------------------
(* Decoding a response body into a struct *)

\* Parses the members of a flat JSON object from token i on; acc maps the
\* keys read so far to their values.
RECURSIVE ParseMembers(_, _, _)
ParseMembers(toks, i, acc) ==
    IF i + 2 > Len(toks) \/ toks[i + 1] # ":"
    THEN [ok |-> FALSE, obj |-> acc]
    ELSE LET acc2 == [k \in DOMAIN acc \cup {toks[i]} |->
                        IF k = toks[i] THEN toks[i + 2] ELSE acc[k]]
         IN  IF i + 3 > Len(toks) THEN [ok |-> FALSE, obj |-> acc2]
             ELSE IF toks[i + 3] = "}" THEN [ok |-> TRUE, obj |-> acc2]
             ELSE IF toks[i + 3] = "," THEN ParseMembers(toks, i + 4, acc2)
             ELSE [ok |-> FALSE, obj |-> acc2]

EmptyObj == [k \in {} |-> ""]

\* Reads one JSON object: no input at all, a text that does not start an
\* object and a text that ends early are all failures.
ParseObject(toks) ==
    IF Len(toks) = 0 THEN [ok |-> FALSE, obj |-> EmptyObj]
    ELSE IF toks[1] # "{" THEN [ok |-> FALSE, obj |-> EmptyObj]
    ELSE IF Len(toks) >= 2 /\ toks[2] = "}" THEN [ok |-> TRUE, obj |-> EmptyObj]
    ELSE ParseMembers(toks, 2, EmptyObj)

\* jsoniter.NewDecoder(res.Body).Decode(...): the body is read from the
\* stream; a failed read and an unparsable text both give an error.
DecodeBody(r) ==
    IF ~r.readOk THEN [err |-> Err("ReadError", <<>>), obj |-> EmptyObj]
    ELSE LET p == ParseObject(r.body)
         IN  IF p.ok THEN [err |-> NoErr, obj |-> p.obj]
             ELSE [err |-> Err("DecodeError", <<>>), obj |-> EmptyObj]

Field(obj, key, zero) == IF key \in DOMAIN obj THEN obj[key] ELSE zero

\* The Message record filled from a decoded object (its ID is the "id" key).
MessageOf(obj) == [nil |-> FALSE, type |-> "Message", ID |-> Field(obj, "id", "0")]

\* The Webhook record filled from a decoded object.
WebhookOf(obj) ==
    [nil |-> FALSE, type |-> "Webhook", ID |-> Field(obj, "id", "0"),
     Name |-> Field(obj, "name", "")]

----------------------------------------------------------------------------
(* Construction *)

FormatBool(b) == IF b THEN "true" ELSE "false"

\* NewWebhookAPI: the URL is fixed here, with the wait flag as its query.
NewWebhookAPI(webhookID, webhookToken, wait) ==
    [URL  |-> [path |-> <<"api", "webhooks", ToString(webhookID), webhookToken>>,
               query |-> <<"wait", FormatBool(wait)>>],
     Wait |-> wait]

----------------------------------------------------------------------------
(* Requests *)

NoReq == [nil |-> TRUE]
NoFile == [nil |-> TRUE, filename |-> "", data |-> <<>>]

\* The multipart body of Execute: the payload_json part, then the file part
\* when a file was given.
MultipartBody(wep, file) ==
    <<[name |-> "payload_json", filename |-> "",
       data |-> Encode(WebhookExecuteParamsTags, wep)]>>
    \o (IF file.nil THEN <<>>
        ELSE <<[name |-> "file", filename |-> file.filename, data |-> file.data]>>)

ExecuteRequest(w, cx, wep, file) ==
    [nil |-> FALSE, Method |-> "POST", URL |-> w.URL,
     ContentType |-> "multipart/form-data",
     Body |-> MultipartBody(wep, file), withCtx |-> cx # "nil"]

GetRequest(w, cx) ==
    [nil |-> FALSE, Method |-> "GET", URL |-> w.URL, ContentType |-> "",
     Body |-> <<>>, withCtx |-> cx # "nil"]

ModifyRequest(w, cx, wmp) ==
    [nil |-> FALSE, Method |-> "PATCH", URL |-> w.URL,
     ContentType |-> "application/json",
     Body |-> Encode(WebhookModifyParamsTags, wmp), withCtx |-> cx # "nil"]

\* Delete builds its request without the context it was given.
DeleteRequest(w, cx) ==
    [nil |-> FALSE, Method |-> "DELETE", URL |-> w.URL, ContentType |-> "",
     Body |-> <<>>, withCtx |-> FALSE]

----------------------------------------------------------------------------
(* Handling the response *)

NoRes == [nil |-> TRUE]

\* ExecuteAccepted without 201 (the accepted set of Delete).
ExecuteAcceptedNoCreated(status) == status = 200 \/ status = 204
ExecuteAccepted(status) == status = 200 \/ status = 201 \/ status = 204
GetAccepted(status) == status = 200
ModifyAccepted(status) == status = 200 \/ status = 304
DeleteAccepted(status) == status = 204 \/ status = 200

\* StatusError returning the outer, still nil err when the read fails.
StatusErrorShadowed(r) ==
    IF ~r.readOk THEN NoErr
    ELSE Err("ProtocolError", r.body)

\* The branch taken on a status that is not accepted: ioutil.ReadAll, then
\* the read error if there is one, else errors.New(string(b)).
StatusError(r) ==
    IF ~r.readOk THEN Err("ReadError", <<>>)
    ELSE Err("ProtocolError", r.body)

\* ExecuteReturn decoding the body whether or not the client waits.
ExecuteReturnAlwaysDecode(wait, r) ==
    IF ~(r.status = 200 \/ r.status = 201 \/ r.status = 204)
    THEN [val |-> Nil, err |-> StatusError(r), closed |-> TRUE]
    ELSE LET d == DecodeBody(r)
         IN  IF d.err # NoErr
             THEN [val |-> Nil, err |-> d.err, closed |-> TRUE]
             ELSE [val |-> MessageOf(d.obj), err |-> NoErr, closed |-> TRUE]

\* ExecuteReturn decoding into a Message it then does not return.
ExecuteReturnDropsMessage(wait, r) ==
    IF ~(r.status = 200 \/ r.status = 201 \/ r.status = 204)
    THEN [val |-> Nil, err |-> StatusError(r), closed |-> TRUE]
    ELSE IF wait
         THEN LET d == DecodeBody(r)
              IN  [val |-> Nil, err |-> d.err, closed |-> TRUE]
         ELSE [val |-> Nil, err |-> NoErr, closed |-> TRUE]

\* What Execute returns once Do gave it the response r; closed says whether
\* res.Body.Close() has run when it returns (deferred right after Do).
ExecuteReturn(wait, r) ==
    IF ~ExecuteAccepted(r.status)
    THEN [val |-> Nil, err |-> StatusError(r), closed |-> TRUE]
    ELSE IF wait
         THEN LET d == DecodeBody(r)
              IN  IF d.err # NoErr
                  THEN [val |-> Nil, err |-> d.err, closed |-> TRUE]
                  ELSE [val |-> MessageOf(d.obj), err |-> NoErr, closed |-> TRUE]
         ELSE [val |-> Nil, err |-> NoErr, closed |-> TRUE]

GetReturn(r) ==
    IF ~GetAccepted(r.status)
    THEN [val |-> Nil, err |-> StatusError(r), closed |-> FALSE]
    ELSE LET d == DecodeBody(r)
         IN  IF d.err # NoErr
             THEN [val |-> Nil, err |-> d.err, closed |-> FALSE]
             ELSE [val |-> WebhookOf(d.obj), err |-> NoErr, closed |-> FALSE]

ModifyReturn(r) ==
    IF ~ModifyAccepted(r.status)
    THEN [val |-> Nil, err |-> StatusError(r), closed |-> FALSE]
    ELSE LET d == DecodeBody(r)
         IN  IF d.err # NoErr
             THEN [val |-> Nil, err |-> d.err, closed |-> FALSE]
             ELSE [val |-> WebhookOf(d.obj), err |-> NoErr, closed |-> FALSE]

DeleteReturn(r) ==
    IF ~DeleteAccepted(r.status)
    THEN [val |-> Nil, err |-> StatusError(r), closed |-> FALSE]
    ELSE [val |-> Nil, err |-> NoErr, closed |-> FALSE]

HandlerReturn(o, wait, r) ==
    CASE o = "Execute" -> ExecuteReturn(wait, r)
      [] o = "Get"     -> GetReturn(r)
      [] o = "Modify"  -> ModifyReturn(r)
      [] o = "Delete"  -> DeleteReturn(r)

\* ResponseFor with the response kept in one place shared by all calls: a
\* call picks up whichever response is there.
ResponseForShared(c, rs) == rs[CHOOSE d \in DOMAIN rs : rs[d] # [nil |-> TRUE]]

\* res, err := wa.Client.Do(req): the response of the caller's own request,
\* held in a local variable of the call.
ResponseFor(c, rs) == rs[c]

----------------------------------------------------------------------------
(* Inputs *)

Embed1 == [Title |-> "Hi there", Description |-> "This is description"]

ExecuteParamsSet ==
    [Content : {"", "Example text"}, Username : {"", "bot"},
     AvatarURL : {"", "http://a/b.png"}, TTS : BOOLEAN,
     Embeds : {NilSlice, Slice(<<>>), Slice(<<Embed1>>)},
     AllowedMentions : {NilPtr, Ptr("AllowedMentions{}")}]

ModifyParamsSet ==
    [Name : {"", "new name"}, Avatar : {"", "data:image/png"},
     ChannelID : {"0", "7"}]

Files == {NoFile, [nil |-> FALSE, filename |-> "a.png", data |-> <<"bytes">>]}
Contexts == {"nil", "live"}

Statuses == {200, 201, 204, 304, 429}

MsgBody(i) == <<"{", "id", ":", i, ",", "name", ":", "hook", "}">>
RateLimited == <<"{", "message", ":", "rate limited", "}">>
Truncated == <<"{", "id">>
Bodies == {<<>>, Truncated, RateLimited} \cup {MsgBody(i) : i \in IDs}

NoParams == [nil |-> TRUE]

----------------------------------------------------------------------------
(* The state machine *)

Init ==
    /\ wa \in {NewWebhookAPI(1, "TOKEN", w) : w \in BOOLEAN}
    /\ pc = [c \in Callers |-> "idle"]
    /\ op = [c \in Callers |-> "none"]
    /\ ctx = [c \in Callers |-> "nil"]
    /\ cancelled = [c \in Callers |-> FALSE]
    /\ params = [c \in Callers |-> NoParams]
    /\ net = [c \in Callers |-> NoReq]
    /\ resps = [c \in Callers |-> NoRes]
    /\ res = [c \in Callers |-> NoRes]
    /\ result = [c \in Callers |-> Nil]
    /\ nreq = [c \in Callers |-> 0]
    /\ ncalls = 0
    /\ openBodies = 0

\* The part of a call up to and including the sending of its one request.
Send(c, o, cx, p, req) ==
    /\ pc[c] = "idle"
    /\ pc' = [pc EXCEPT ![c] = "inflight"]
    /\ op' = [op EXCEPT ![c] = o]
    /\ ctx' = [ctx EXCEPT ![c] = cx]
    /\ params' = [params EXCEPT ![c] = p]
    /\ net' = [net EXCEPT ![c] = req]
    /\ nreq' = [nreq EXCEPT ![c] = @ + 1]
    /\ ncalls' = ncalls + 1
    /\ UNCHANGED <<wa, cancelled, resps, res, result, openBodies>>

ExecuteCall(c, cx, wep, file) ==
    Send(c, "Execute", cx, [nil |-> FALSE, wep |-> wep, file |-> file],
         ExecuteRequest(wa, cx, wep, file))

GetCall(c, cx) == Send(c, "Get", cx, NoParams, GetRequest(wa, cx))

ModifyCall(c, cx, wmp) ==
    Send(c, "Modify", cx, [nil |-> FALSE, wmp |-> wmp], ModifyRequest(wa, cx, wmp))

DeleteCall(c, cx) == Send(c, "Delete", cx, NoParams, DeleteRequest(wa, cx))

\* The caller's context is cancelled while its request is in flight.
Cancel(c) ==
    /\ pc[c] = "inflight"
    /\ ctx[c] = "live"
    /\ ~cancelled[c]
    /\ cancelled' = [cancelled EXCEPT ![c] = TRUE]
    /\ UNCHANGED <<wa, pc, op, ctx, params, net, resps, res, result, nreq,
                   ncalls, openBodies>>

\* The request carries a context and that context is cancelled: the
\* transport aborts it.
Aborted(c) == net[c].withCtx /\ cancelled[c]

\* Do returns an error: the call returns it (if err != nil { return nil, err }).
RoundTripError(c) ==
    /\ pc[c] = "inflight"
    /\ pc' = [pc EXCEPT ![c] = "done"]
    /\ result' = [result EXCEPT ![c] =
         [val |-> Nil,
          err |-> IF Aborted(c) THEN Err("Canceled", <<>>)
                  ELSE Err("TransportError", <<>>)]]
    /\ net' = [net EXCEPT ![c] = NoReq]
    /\ params' = [params EXCEPT ![c] = NoParams]
    /\ UNCHANGED <<wa, op, ctx, cancelled, resps, res, nreq, ncalls, openBodies>>

\* The transport has the response to the caller's request; its body is open.
RoundTripOK(c, status, body, readOk) ==
    /\ pc[c] = "inflight"
    /\ ~Aborted(c)
    /\ pc' = [pc EXCEPT ![c] = "responded"]
    /\ resps' = [resps EXCEPT ![c] =
         [nil |-> FALSE, status |-> status, body |-> body, readOk |-> readOk]]
    /\ net' = [net EXCEPT ![c] = NoReq]
    /\ params' = [params EXCEPT ![c] = NoParams]
    /\ openBodies' = openBodies + 1
    /\ UNCHANGED <<wa, op, ctx, cancelled, res, result, nreq, ncalls>>

\* The rest of the call: Do returns the response, the handler checks the
\* status, reads or decodes the body and returns.
Return(c) ==
    /\ pc[c] = "responded"
    /\ LET r == ResponseFor(c, resps)
           h == HandlerReturn(op[c], wa.Wait, r)
       IN  /\ res' = [res EXCEPT ![c] =
                 [nil |-> FALSE, status |-> r.status, body |-> r.body,
                  readOk |-> r.readOk, closed |-> h.closed]]
           /\ result' = [result EXCEPT ![c] = [val |-> h.val, err |-> h.err]]
           /\ openBodies' = IF h.closed THEN openBodies - 1 ELSE openBodies
    /\ resps' = [resps EXCEPT ![c] = NoRes]
    /\ pc' = [pc EXCEPT ![c] = "done"]
    /\ UNCHANGED <<wa, op, ctx, cancelled, params, net, nreq, ncalls>>

\* The caller goes on to its next call on the same client.
NextCall(c) ==
    /\ pc[c] = "done"
    /\ ncalls < MaxCalls
    /\ pc' = [pc EXCEPT ![c] = "idle"]
    /\ op' = [op EXCEPT ![c] = "none"]
    /\ ctx' = [ctx EXCEPT ![c] = "nil"]
    /\ cancelled' = [cancelled EXCEPT ![c] = FALSE]
    /\ res' = [res EXCEPT ![c] = NoRes]
    /\ result' = [result EXCEPT ![c] = Nil]
    /\ nreq' = [nreq EXCEPT ![c] = 0]
    /\ UNCHANGED <<wa, params, net, resps, ncalls, openBodies>>

\* One caller making its calls one after the other, against a server that
\* answers any status with any body.
Next ==
    \/ \E cx \in Contexts, wep \in ExecuteParamsSet, f \in Files :
          ExecuteCall(1, cx, wep, f)
    \/ \E cx \in Contexts : GetCall(1, cx)
    \/ \E cx \in Contexts, wmp \in ModifyParamsSet : ModifyCall(1, cx, wmp)
    \/ \E cx \in Contexts : DeleteCall(1, cx)
    \/ Cancel(1)
    \/ RoundTripError(1)
    \/ \E s \in Statuses, b \in Bodies, ok \in BOOLEAN : RoundTripOK(1, s, b, ok)
    \/ Return(1)
    \/ NextCall(1)

Spec == Init /\ [][Next]_vars

\* The mock server of the concurrent runs: the body it sends for a request
\* names the caller the request came from.
MockBody(c) == MsgBody(ToString(c))
MockStatuses == {200, 429}
DefaultParams ==
    [Content |-> "Example text", Username |-> "", AvatarURL |-> "", TTS |-> FALSE,
     Embeds |-> NilSlice, AllowedMentions |-> NilPtr]

DefaultModify ==
    [Name |-> "This is a new default webhook name", Avatar |-> "", ChannelID |-> "0"]

\* Every caller makes one call on the shared client, all at the same time.
NextConc ==
    \E c \in Callers :
        \/ ExecuteCall(c, "nil", DefaultParams, NoFile)
        \/ GetCall(c, "nil")
        \/ ModifyCall(c, "nil", DefaultModify)
        \/ DeleteCall(c, "nil")
        \/ RoundTripError(c)
        \/ \E s \in MockStatuses : RoundTripOK(c, s, MockBody(c), TRUE)
        \/ Return(c)

SpecConc == Init /\ [][NextConc]_vars

----------------------------------------------------------------------------
(* Properties *)

Done(c) == pc[c] = "done"
\* The call of c has returned after the transport gave it a response.
Answered(c) == pc[c] = "done" /\ res[c] # NoRes

\* The accepted statuses of each operation, as the specification lists them.
AcceptedSet(o) ==
    CASE o = "Execute" -> {200, 201, 204}
      [] o = "Get"     -> {200}
      [] o = "Modify"  -> {200, 304}
      [] o = "Delete"  -> {200, 204}
      [] OTHER         -> {}

\* The bodies of the mock server that are a complete JSON object.
WellFormed(b) == b = RateLimited \/ \E i \in IDs : b = MsgBody(i)

\* C1 as stated: once the transport has returned a response, a status
\* outside the operation's accepted set ({200,201,204} Execute, {200} Get,
\* {200,304} Modify, {200,204} Delete) always gives a ProtocolError whose
\* text is exactly the response body, and a status inside it never gives a
\* ProtocolError.
C1_ProtocolErrorAlways ==
    \A c \in Callers :
        Answered(c) =>
            IF res[c].status \in AcceptedSet(op[c])
            THEN result[c].err.kind # "ProtocolError"
            ELSE result[c].err = Err("ProtocolError", res[c].body)

\* C1 amended: a status outside the operation's accepted set gives a
\* ProtocolError whose text is exactly the response body when the body can
\* be read to its end, and the read error when it cannot; a status inside
\* the accepted set never gives a ProtocolError.
C1_ProtocolErrorIfReadable ==
    \A c \in Callers :
        Answered(c) =>
            IF res[c].status \in AcceptedSet(op[c])
            THEN result[c].err.kind # "ProtocolError"
            ELSE IF res[c].readOk
                 THEN result[c].err = Err("ProtocolError", res[c].body)
                 ELSE result[c].err.kind = "ReadError"

\* Execute was answered 429 with the rate-limit body and failed with it.
C1_Witness ==
    \E c \in Callers :
        /\ Answered(c) /\ op[c] = "Execute"
        /\ res[c].status = 429 /\ res[c].body = RateLimited
        /\ result[c].err = Err("ProtocolError", RateLimited)

\* C2: with wait=false, Execute returns no message and no error on every
\* accepted status (200, 201, 204), whatever the body is and whether or not
\* it could be read: the body is never decoded.
C2_NoDecodeWithoutWait ==
    \A c \in Callers :
        (Answered(c) /\ op[c] = "Execute" /\ ~wa.Wait
            /\ res[c].status \in {200, 201, 204})
        => result[c] = [val |-> Nil, err |-> NoErr]

\* Execute without wait got 200 with a body that is no JSON and returned
\* nil, nil.
C2_Witness ==
    \E c \in Callers :
        /\ Answered(c) /\ op[c] = "Execute" /\ ~wa.Wait
        /\ res[c].status = 200 /\ res[c].body = Truncated
        /\ result[c] = [val |-> Nil, err |-> NoErr]

\* C3: with wait=true, an accepted status and a body that is a valid Message
\* JSON, Execute returns a non-nil Message and no error, and the Message's ID
\* is the body's id.
C3_MessageIDMatchesBody ==
    \A c \in Callers : \A i \in IDs :
        (Answered(c) /\ op[c] = "Execute" /\ wa.Wait
            /\ res[c].status \in {200, 201, 204}
            /\ res[c].readOk /\ res[c].body = MsgBody(i))
        => /\ result[c].err = NoErr
           /\ ~result[c].val.nil
           /\ result[c].val.ID = i

\* Execute with wait got 200 and the Message with the last id, and
\* returned it.
C3_Witness ==
    \E c \in Callers :
        /\ Answered(c) /\ op[c] = "Execute" /\ wa.Wait
        /\ res[c].status = 200 /\ res[c].readOk
        /\ res[c].body = MsgBody(ToString(MaxID))
        /\ ~result[c].val.nil /\ result[c].val.ID = ToString(MaxID)

\* C4: a 304 answer with an empty body does not make Modify fail with a
\* DecodeError: not-modified is a success.
C4_Modify304EmptyBodySucceeds ==
    \A c \in Callers :
        (Answered(c) /\ op[c] = "Modify" /\ res[c].status = 304
            /\ res[c].body = <<>> /\ res[c].readOk)
        => result[c].err.kind # "DecodeError"

\* C5: the PATCH body of Modify has no key for a field of the partial
\* update left at its zero value (name "", avatar "", channel_id 0).
C5_ModifyBodyOmitsUnset ==
    \A c \in Callers :
        (pc[c] = "inflight" /\ op[c] = "Modify") =>
            LET keys == JSONKeys(net[c].Body)
                wmp  == params[c].wmp
            IN  /\ wmp.Name = "" => "name" \notin keys
                /\ wmp.Avatar = "" => "avatar" \notin keys
                /\ wmp.ChannelID = "0" => "channel_id" \notin keys

\* C6: the payload_json part of Execute has a key exactly for the fields
\* that are not zero: a non-empty string for content, username and
\* avatar_url, true for tts, a non-empty list for embeds, a non-nil record
\* for allowed_mentions.
C6_PayloadKeyIffNonZero ==
    \A c \in Callers :
        (pc[c] = "inflight" /\ op[c] = "Execute") =>
            LET part == net[c].Body[1]
                keys == JSONKeys(part.data)
                wep  == params[c].wep
            IN  /\ part.name = "payload_json"
                /\ "content" \in keys <=> wep.Content # ""
                /\ "username" \in keys <=> wep.Username # ""
                /\ "avatar_url" \in keys <=> wep.AvatarURL # ""
                /\ "tts" \in keys <=> wep.TTS
                /\ "embeds" \in keys <=> (~wep.Embeds.nil /\ wep.Embeds.elems # <<>>)
                /\ "allowed_mentions" \in keys <=> ~wep.AllowedMentions.nil

\* An Execute in flight with content unset, an empty non-nil embeds list and
\* allowed mentions set: only allowed_mentions is in the payload.
C6_Witness ==
    \E c \in Callers :
        /\ pc[c] = "inflight" /\ op[c] = "Execute"
        /\ params[c].wep.Content = ""
        /\ params[c].wep.Embeds = Slice(<<>>)
        /\ ~params[c].wep.AllowedMentions.nil
        /\ JSONKeys(net[c].Body[1].data) = {"allowed_mentions"}

\* C7: every operation honours its context: when the context is cancelled
\* while the request is in flight, the transport never hands the response to
\* the call, and the call ends with an error and without a response.
C7_CancelAborts ==
    \A c \in Callers :
        cancelled[c] =>
            /\ pc[c] # "responded"
            /\ Done(c) => (res[c] = NoRes /\ result[c].err # NoErr)

\* The outcome of a call as its caller sees it, from the answer of the mock
\* server to the caller's own request alone.
Expected(c, o, wait, status) ==
    IF status \notin AcceptedSet(o)
    THEN [val |-> Nil, err |-> Err("ProtocolError", MockBody(c))]
    ELSE IF o = "Execute" /\ wait
         THEN [val |-> [nil |-> FALSE, type |-> "Message", ID |-> ToString(c)],
               err |-> NoErr]
    ELSE IF o \in {"Get", "Modify"}
         THEN [val |-> [nil |-> FALSE, type |-> "Webhook", ID |-> ToString(c),
                        Name |-> "hook"],
               err |-> NoErr]
    ELSE [val |-> Nil, err |-> NoErr]

C8_Matched ==
    \A c \in Callers :
        Answered(c) =>
            /\ res[c].body = MockBody(c)
            /\ result[c] = Expected(c, op[c], wa.Wait, res[c].status)

\* C8: with Execute, Get and Delete running at the same time on one client,
\* in every interleaving each call's result is the one its own response
\* gives, and no step of any call changes the client.
C8_NoCrossTalk == [](C8_Matched) /\ [][wa' = wa]_vars

\* Execute has returned with the answer to its own request while the
\* answers to the Get and the Delete of two other callers wait at the
\* transport.
C8_Witness ==
    \E e, g, d \in Callers :
        /\ op[e] = "Execute" /\ op[g] = "Get" /\ op[d] = "Delete"
        /\ Answered(e) /\ pc[g] = "responded" /\ pc[d] = "responded"
        /\ resps[g] # resps[d]
        /\ result[e] = Expected(e, "Execute", wa.Wait, res[e].status)

\* The call decodes the body of an accepted response.
Decodes(o, wait) == (o = "Execute" /\ wait) \/ o \in {"Get", "Modify"}

\* C9: a call issues at most one request; a transport error, a status that
\* is not accepted and a failed decode each end the call with an error, so
\* no failure becomes a success and none is followed by a second request.
C9_OneRequestNoSwallow ==
    \A c \in Callers :
        /\ nreq[c] <= 1
        /\ pc[c] \in {"inflight", "responded", "done"} => nreq[c] = 1
        /\ Done(c) =>
            /\ res[c] = NoRes => result[c].err # NoErr
            /\ (res[c] # NoRes /\ res[c].status \notin AcceptedSet(op[c]))
                    => result[c].err # NoErr
            /\ (res[c] # NoRes /\ res[c].status \in AcceptedSet(op[c])
                    /\ Decodes(op[c], wa.Wait)
                    /\ ~(res[c].readOk /\ WellFormed(res[c].body)))
                    => result[c].err # NoErr

\* A Delete ended with the transport's error after its single request.
C9_Witness ==
    \E c \in Callers :
        /\ Done(c) /\ op[c] = "Delete" /\ res[c] = NoRes
        /\ result[c].err.kind = "TransportError" /\ nreq[c] = 1

\* C10: every call that got a response has closed its body when it returns,
\* so when no call is running no response body is open.
C10_BodiesClosed ==
    /\ \A c \in Callers : Answered(c) => res[c].closed
    /\ (\A c \in Callers : pc[c] \in {"idle", "done"}) => openBodies = 0

====
